---- MODULE Spec2Model ----
(***************************************************************************)
(* The interactive tabbed view controller of weather_cli                   *)
(* (src/src/modules/tui.rs): the terminal resource acquired by             *)
(* WeatherTui::new, the render loop of WeatherTui::run (draw one frame,    *)
(* block for one input event, apply it), the restore code after the loop   *)
(* and the Drop implementation, driven by the callers in src/src/main.rs.  *)
(***************************************************************************)
EXTENDS Integers, Sequences, FiniteSets, TLC

----------------------------------------------------------------------------
(* Bounds of the model.                                                    *)

\* Events other than a quit key that one session reads.
MaxEvents == 4

\* Controllers the interactive menu constructs one after the other.
MaxSessions == 2

\* Steps of one degree (and of one unit of wind speed): temperatures and
\* wind speeds are multiples of 1/Tenths.
Tenths == 10

\* Largest temperature, in degrees, either side of zero.
MaxTemp == 60

\* Largest wind speed.
MaxWind == 70

\* Clock readings run from 0 to MaxClock milliseconds.
MaxClock == 8200

\* Longest daily-forecast list.
MaxDays == 9

\* The longest string given to truncate_string, in characters.
MaxStr == 4

----------------------------------------------------------------------------
(* Tabs: enum TuiTab and its cyclic transitions.                           *)

Tabs == {"CurrentWeather", "WeatherForecast", "Calendar"}

next_no_wrap(t) ==
    CASE t = "CurrentWeather"  -> "WeatherForecast"
      [] t = "WeatherForecast" -> "Calendar"
      [] t = "Calendar"        -> "Calendar"

next(t) ==
    CASE t = "CurrentWeather"  -> "WeatherForecast"
      [] t = "WeatherForecast" -> "Calendar"
      [] t = "Calendar"        -> "CurrentWeather"

prev_no_wrap(t) ==
    CASE t = "CurrentWeather"  -> "CurrentWeather"
      [] t = "WeatherForecast" -> "CurrentWeather"
      [] t = "Calendar"        -> "WeatherForecast"

prev(t) ==
    CASE t = "CurrentWeather"  -> "Calendar"
      [] t = "WeatherForecast" -> "CurrentWeather"
      [] t = "Calendar"        -> "WeatherForecast"

----------------------------------------------------------------------------
(* Input events: crossterm's Event, with the key codes the match of run()  *)
(* names and three it does not ('Q', '4', Up).                             *)

BoundCodes == {"q", "Esc", "Right", "Tab", "Left", "BackTab", "1", "2", "3"}
OtherCodes == {"Q", "4", "Up"}
KeyCodes   == BoundCodes \cup OtherCodes
KeyKinds   == {"Press", "Release", "Repeat"}
NonKeyTypes == {"Mouse", "Resize", "FocusGained", "FocusLost", "Paste"}

KeyEvent(c, k) == [type |-> "Key", code |-> c, kind |-> k]
NonKeyEvent(ty) == [type |-> ty, code |-> "NoCode", kind |-> "NoKind"]

Events == {KeyEvent(c, k) : c \in KeyCodes, k \in KeyKinds}
            \cup {NonKeyEvent(ty) : ty \in NonKeyTypes}

NoEvent == [type |-> "NoEvent", code |-> "NoCode", kind |-> "NoKind"]

\* The key a user pressed with this event, "NoPress" when the event is no
\* key press (the log of the session records it).
Pressed(ev) ==
    IF ev.type = "Key" /\ ev.kind = "Press" THEN ev.code ELSE "NoPress"

\* The log of a session keeps its last three events: s with x added.
Logged(s, x, n) == IF Len(s) < n THEN Append(s, x) ELSE Append(Tail(s), x)

----------------------------------------------------------------------------
(* The match of run() on one event: the tab after it and whether the loop  *)
(* is left (break).                                                        *)

Handled(t, b) == [active_tab |-> t, brk |-> b]

\* Variants of the match, each with one arm changed.
handle_event_variant(ev, t, v) ==
    IF ev.type = "Key"
    THEN IF ev.kind = "Press" \/ v = "any_kind"
         THEN CASE ev.code = "q" -> Handled(t, TRUE)
                [] ev.code = "Esc" -> Handled(t, v # "esc_ignored")
                [] ev.code = "Right" -> Handled(next(t), FALSE)
                [] ev.code = "Tab" ->
                     Handled(IF v = "tab_twice" THEN next(next(t)) ELSE next(t),
                             FALSE)
                [] ev.code \in {"Left", "BackTab"} -> Handled(prev(t), FALSE)
                [] ev.code = "1" -> Handled("CurrentWeather", FALSE)
                [] ev.code = "2" -> Handled("WeatherForecast", FALSE)
                [] ev.code = "3" ->
                     Handled(IF v = "three_is_two" THEN "WeatherForecast"
                             ELSE "Calendar", FALSE)
                [] ev.code = "Q" -> Handled(t, v = "upper_q_quits")
                [] OTHER         -> Handled(t, FALSE)
         ELSE Handled(t, FALSE)
    ELSE Handled(t, FALSE)

handle_event_esc_ignored(ev, t) == handle_event_variant(ev, t, "esc_ignored")
handle_event_tab_twice(ev, t) == handle_event_variant(ev, t, "tab_twice")
handle_event_three_is_two(ev, t) == handle_event_variant(ev, t, "three_is_two")
handle_event_upper_q_quits(ev, t) == handle_event_variant(ev, t, "upper_q_quits")
handle_event_any_kind(ev, t) == handle_event_variant(ev, t, "any_kind")

handle_event(ev, t) ==
    IF ev.type = "Key"
    THEN IF ev.kind = "Press"
         THEN CASE ev.code \in {"q", "Esc"}        -> Handled(t, TRUE)
                [] ev.code \in {"Right", "Tab"}    -> Handled(next(t), FALSE)
                [] ev.code \in {"Left", "BackTab"} -> Handled(prev(t), FALSE)
                [] ev.code = "1" -> Handled("CurrentWeather", FALSE)
                [] ev.code = "2" -> Handled("WeatherForecast", FALSE)
                [] ev.code = "3" -> Handled("Calendar", FALSE)
                [] OTHER         -> Handled(t, FALSE)
         ELSE Handled(t, FALSE)
    ELSE Handled(t, FALSE)

----------------------------------------------------------------------------
(* Weather conditions: enum WeatherCondition and its two lookups.          *)

ConditionOrder ==
    <<"Clear", "Clouds", "Rain", "Drizzle", "Thunderstorm", "Snow", "Mist",
      "Fog", "Smoke", "Haze", "Dust", "Sand", "Ash", "Squall", "Tornado",
      "Unknown">>

WeatherConditions == {ConditionOrder[i] : i \in 1..Len(ConditionOrder)}

\* The emoji of a condition, written as its code points.
get_emoji_no_unknown(c) ==
    CASE c = "Clear"        -> "U+2600 U+FE0F"
      [] c = "Clouds"       -> "U+2601 U+FE0F"
      [] c = "Rain"         -> "U+1F327 U+FE0F"
      [] c = "Drizzle"      -> "U+1F326 U+FE0F"
      [] c = "Thunderstorm" -> "U+26C8 U+FE0F"
      [] c = "Snow"         -> "U+2744 U+FE0F"
      [] c \in {"Mist", "Fog", "Smoke", "Haze", "Dust", "Sand", "Ash"}
                            -> "U+1F32B U+FE0F"
      [] c = "Squall"       -> "U+1F4A8"
      [] c = "Tornado"      -> "U+1F32A U+FE0F"
      [] OTHER              -> ""

get_emoji(c) ==
    CASE c = "Clear"        -> "U+2600 U+FE0F"
      [] c = "Clouds"       -> "U+2601 U+FE0F"
      [] c = "Rain"         -> "U+1F327 U+FE0F"
      [] c = "Drizzle"      -> "U+1F326 U+FE0F"
      [] c = "Thunderstorm" -> "U+26C8 U+FE0F"
      [] c = "Snow"         -> "U+2744 U+FE0F"
      [] c = "Mist"         -> "U+1F32B U+FE0F"
      [] c = "Fog"          -> "U+1F32B U+FE0F"
      [] c = "Smoke"        -> "U+1F32B U+FE0F"
      [] c = "Haze"         -> "U+1F32B U+FE0F"
      [] c = "Dust"         -> "U+1F32B U+FE0F"
      [] c = "Sand"         -> "U+1F32B U+FE0F"
      [] c = "Ash"          -> "U+1F32B U+FE0F"
      [] c = "Squall"       -> "U+1F4A8"
      [] c = "Tornado"      -> "U+1F32A U+FE0F"
      [] c = "Unknown"      -> "U+2753"

\* impl fmt::Display for WeatherCondition.
to_string(c) ==
    CASE c = "Clear"        -> "Clear"
      [] c = "Clouds"       -> "Cloudy"
      [] c = "Rain"         -> "Rainy"
      [] c = "Drizzle"      -> "Drizzle"
      [] c = "Thunderstorm" -> "Thunderstorm"
      [] c = "Snow"         -> "Snowy"
      [] c = "Mist"         -> "Misty"
      [] c = "Fog"          -> "Foggy"
      [] c = "Smoke"        -> "Smoky"
      [] c = "Haze"         -> "Hazy"
      [] c = "Dust"         -> "Dusty"
      [] c = "Sand"         -> "Sandy"
      [] c = "Ash"          -> "Ashy"
      [] c = "Squall"       -> "Squall"
      [] c = "Tornado"      -> "Tornado"
      [] c = "Unknown"      -> "Unknown"

----------------------------------------------------------------------------
(* Arithmetic of the scene functions.  An f64 temperature or wind speed is *)
(* the integer number of its 1/Tenths steps; humidity is a u8.             *)

U8Max == 255

Min(a, b) == IF a <= b THEN a ELSE b
Max(a, b) == IF a >= b THEN a ELSE b
Abs(a) == IF a >= 0 THEN a ELSE -a

\* `x as u32` / `x as usize` of the f64 n/d (d > 0): truncated, negative
\* values saturate to 0.
AsUnsigned(n, d) == IF n <= 0 THEN 0 ELSE n \div d

\* `x as i32` of the f64 n/d (d > 0): truncated toward zero.
AsI32(n, d) == IF n >= 0 THEN n \div d ELSE -((-n) \div d)

Line(x1, y1, x2, y2, c) ==
    [shape |-> "Line", x1 |-> x1, y1 |-> y1, x2 |-> x2, y2 |-> y2, color |-> c]
Rectangle(x, y, w, h, c) ==
    [shape |-> "Rectangle", x |-> x, y |-> y, width |-> w, height |-> h,
     color |-> c]
PointsAt(x, y, c) == [shape |-> "Points", x |-> x, y |-> y, color |-> c]

----------------------------------------------------------------------------
(* draw_cloud_formations: the clouds drawn for a humidity.                 *)

\* cloud_data: centre x, centre y, size, opacity (in tenths).
cloud_data ==
    << <<60, 140, 32, 8>>, <<140, 155, 38, 10>>, <<220, 135, 35, 9>>,
       <<300, 150, 30, 7>>, <<380, 140, 28, 8>>, <<100, 125, 25, 6>>,
       <<260, 165, 33, 9>>, <<340, 130, 29, 7>> >>

num_clouds_unclamped(humidity) == humidity \div 15

num_clouds(humidity) == Min(Max(humidity \div 15, 2), 8)

draw_cloud_formations(humidity, is_day, is_storm) ==
    [i \in 1..num_clouds(humidity) |->
        [x |-> cloud_data[i][1],
         y |-> cloud_data[i][2],
         size |-> cloud_data[i][3],
         color |-> IF is_storm THEN "Black"
                   ELSE IF is_day THEN "White" ELSE "Gray",
         shadow |-> is_day /\ ~is_storm]]

----------------------------------------------------------------------------
(* draw_weather_indicators: the data indicator panel.  temperature and     *)
(* wind_speed in steps of 1/Tenths; temp_height in steps of 1/(2*Tenths),  *)
(* the unit in which |temperature| * 1.5 is a whole number.                *)

temp_height_signed(temperature) ==
    Min(temperature * 3, 35 * 2 * Tenths)

temp_height(temperature) ==
    Min(Abs(temperature) * 3, 35 * 2 * Tenths)

temp_color(temperature) ==
    LET t == AsI32(temperature, Tenths) IN
    CASE t > 35 -> "Red"
      [] t > 25 -> "LightRed"
      [] t > 15 -> "Yellow"
      [] t > 5  -> "Green"
      [] t > -5 -> "LightBlue"
      [] OTHER  -> "Blue"

draw_weather_indicators(temperature, humidity, wind_speed) ==
    [temp_height |-> temp_height(temperature),
     tube_points |-> AsUnsigned(temp_height(temperature), 2 * Tenths),
     temp_color |-> temp_color(temperature),
     humidity_drops |-> Min(humidity \div 20, 5),
     wind_strength |-> AsUnsigned(Min(wind_speed, 6 * 5 * Tenths), 5 * Tenths),
     frame |-> Rectangle(15 - 5, 185 - 45, 45, 50, "White")]

----------------------------------------------------------------------------
(* The weather scene.  Every drawing function that animates reads the      *)
(* wall clock itself; `now` gives the reading (milliseconds since the      *)
(* epoch) each of these sites gets.                                        *)

ClockSites == {"star", "star_last", "rain", "storm", "torrential",
               "storm_ground", "snow", "fog", "tendrils", "wind", "grass"}

\* The sites in the order a frame calls them: the ground before the
\* centerpiece, the wind overlay after it; "star" and "star_last" are the
\* first and the last of the 23 calls of draw_twinkling_star.
CallOrder ==
    <<"grass", "star", "star_last", "rain", "storm", "torrential",
      "storm_ground", "snow", "fog", "tendrils", "wind">>

\* All sites reading the same instant.
AtInstant(t) == [s \in ClockSites |-> t]

\* Lightning of draw_storm_system: the start positions of the bolts drawn
\* at clock reading time.
lightning_primary_only(time) ==
    LET lightning_cycle == time % 4000 IN
    IF lightning_cycle < 150 \/ (lightning_cycle > 2000 /\ lightning_cycle < 2100)
    THEN << <<180, 160>> >> ELSE << >>

lightning(time) ==
    LET lightning_cycle == time % 4000 IN
    (IF lightning_cycle < 150 \/ (lightning_cycle > 2000 /\ lightning_cycle < 2100)
     THEN << <<180, 160>> >> ELSE << >>)
    \o (IF lightning_cycle > 500 /\ lightning_cycle < 600
        THEN << <<280, 150>> >> ELSE << >>)

\* draw_magnificent_sun: the colour of the sun's body.
draw_magnificent_sun(temperature) ==
    LET t == AsI32(temperature, Tenths) IN
    [sun_color |-> CASE t > 40 -> "Red"
                     [] t > 30 -> "LightRed"
                     [] t > 20 -> "Yellow"
                     [] t > 10 -> "LightYellow"
                     [] OTHER  -> "White"]

\* draw_wind_patterns: the stream lines of the wind overlay.  wind_speed / 6
\* is the whole number wind_speed in steps of 1/(6*Tenths).
num_streams_no_floor(wind_speed) ==
    AsUnsigned(Min(wind_speed, 10 * 6 * Tenths), 6 * Tenths)

num_streams(wind_speed) ==
    AsUnsigned(Max(Min(wind_speed, 10 * 6 * Tenths), 3 * 6 * Tenths),
               6 * Tenths)

wind_color(wind_speed) ==
    LET s == AsUnsigned(wind_speed, Tenths) IN
    CASE s > 20 -> "Red"
      [] s > 15 -> "Yellow"
      [] s > 10 -> "White"
      [] OTHER  -> "Gray"

draw_wind_patterns(wind_speed, now) ==
    [drawn |-> TRUE,
     motion_offset |-> (now["wind"] \div 150) % 200,
     num_streams |-> num_streams(wind_speed),
     wind_color |-> wind_color(wind_speed)]

\* What a centerpiece branch draws: the functions it calls, its clouds,
\* its lightning bolts and the clock-driven values of its animation.
Branch(calls, clouds, bolts, anim) ==
    [calls |-> calls, clouds |-> clouds, bolts |-> bolts, anim |-> anim]

\* The height of drop i of a layer of draw_rain_system.
y_pos(heavy_rain, layer, i, animation_offset) ==
    LET fall_speed == IF heavy_rain THEN 10 ELSE 8 IN
    ((layer * fall_speed + animation_offset + i * 2) % 140) + 60

draw_rain_system(heavy_rain, wind_speed, now) ==
    Branch(<<"draw_rain_system">>,
           draw_cloud_formations(90, TRUE, FALSE),
           << >>,
           [animation_offset |-> (now["rain"] \div 120) % 80])

draw_storm_system(wind_speed, now) ==
    Branch(<<"draw_storm_system">>,
           draw_cloud_formations(95, TRUE, TRUE),
           lightning(now["storm"]),
           [rain_offset |-> (now["torrential"] \div 80) % 60,
            ripple_phase |-> (now["storm_ground"] \div 200) % 20])

draw_snow_system(temperature, wind_speed, now) ==
    Branch(<<"draw_snow_system">>,
           draw_cloud_formations(80, TRUE, FALSE),
           << >>,
           [snow_frame |-> (now["snow"] \div 500) % 60,
            flake_count |-> IF temperature < -5 * Tenths THEN 45 ELSE 35])

\* fog_drift and motion are sines of the clock reading: the reading stands
\* for them.
draw_fog_system(thick_fog, wind_speed, now) ==
    Branch(<<"draw_fog_system">>,
           << >>,
           << >>,
           [layers |-> IF thick_fog THEN 18 ELSE 12,
            fog_drift_time |-> now["fog"],
            motion_time |-> now["tendrils"]])

\* The match of render_weather_canvas on the condition.
centerpiece_uses_humidity(condition, temperature, humidity, wind_speed, is_day, now) ==
    CASE condition = "Clear" ->
           IF is_day
           THEN Branch(<<"draw_magnificent_sun">>, << >>, << >>,
                       draw_magnificent_sun(temperature))
           ELSE Branch(<<"draw_beautiful_moon", "draw_stellar_field">>,
                       << >>, << >>,
                       [twinkle_time |-> now["star"],
                        twinkle_time_last |-> now["star_last"]])
      [] condition = "Clouds" ->
           Branch(IF is_day
                  THEN <<"draw_cloud_formations", "draw_sun_through_clouds">>
                  ELSE <<"draw_cloud_formations">>,
                  draw_cloud_formations(humidity, is_day, FALSE), << >>,
                  [none |-> TRUE])
      [] condition \in {"Rain", "Drizzle"} ->
           draw_rain_system(condition = "Rain", wind_speed, now)
      [] condition = "Thunderstorm" ->
           draw_storm_system(wind_speed, now)
      [] condition = "Snow" ->
           draw_snow_system(temperature, wind_speed, now)
      [] condition \in {"Fog", "Mist"} ->
           draw_fog_system(condition = "Fog", wind_speed, now)
      [] OTHER ->
           Branch(<<"draw_cloud_formations">>,
                  draw_cloud_formations(humidity, is_day, FALSE), << >>,
                  [none |-> TRUE])

centerpiece(condition, temperature, humidity, wind_speed, is_day, now) ==
    CASE condition = "Clear" ->
           IF is_day
           THEN Branch(<<"draw_magnificent_sun">>, << >>, << >>,
                       draw_magnificent_sun(temperature))
           ELSE Branch(<<"draw_beautiful_moon", "draw_stellar_field">>,
                       << >>, << >>,
                       [twinkle_time |-> now["star"],
                        twinkle_time_last |-> now["star_last"]])
      [] condition = "Clouds" ->
           Branch(IF is_day
                  THEN <<"draw_cloud_formations", "draw_sun_through_clouds">>
                  ELSE <<"draw_cloud_formations">>,
                  draw_cloud_formations(humidity, is_day, FALSE), << >>,
                  [none |-> TRUE])
      [] condition \in {"Rain", "Drizzle"} ->
           draw_rain_system(condition = "Rain", wind_speed, now)
      [] condition = "Thunderstorm" ->
           draw_storm_system(wind_speed, now)
      [] condition = "Snow" ->
           draw_snow_system(temperature, wind_speed, now)
      [] condition \in {"Fog", "Mist"} ->
           draw_fog_system(condition = "Fog", wind_speed, now)
      [] OTHER ->
           Branch(<<"draw_cloud_formations">>,
                  draw_cloud_formations(50, is_day, FALSE), << >>,
                  [none |-> TRUE])

\* The sites of which a frame of the scene reads the clock.
clock_reads(condition, is_day, wind_speed) ==
    (IF condition \in {"Rain", "Drizzle", "Snow"} THEN {} ELSE {"grass"})
    \cup (CASE condition = "Clear" ->
                 IF is_day THEN {} ELSE {"star", "star_last"}
            [] condition \in {"Rain", "Drizzle"} -> {"rain"}
            [] condition = "Thunderstorm" ->
                 {"storm", "torrential", "storm_ground"}
            [] condition = "Snow" -> {"snow"}
            [] condition \in {"Fog", "Mist"} -> {"fog", "tendrils"}
            [] OTHER -> {})
    \cup (IF wind_speed > 8 * Tenths THEN {"wind"} ELSE {})

\* draw_ground_terrain: the horizon line and the ground feature, of which
\* the grass sways with the clock.
draw_ground_terrain_swaying(condition, now) ==
    [horizon |-> Line(0, 50 + ((now["grass"] \div 1000) % 2), 400,
                      50 + ((now["grass"] \div 1000) % 2), "Green"),
     feature |-> CASE condition \in {"Rain", "Drizzle"} -> "draw_puddles"
                   [] condition = "Snow" -> "draw_snow_drifts"
                   [] OTHER -> "draw_grass_details",
     sway_time |-> IF condition \in {"Rain", "Drizzle", "Snow"}
                   THEN -1 ELSE now["grass"]]

draw_ground_terrain(condition, now) ==
    [horizon |-> Line(0, 50, 400, 50, "Green"),
     feature |-> CASE condition \in {"Rain", "Drizzle"} -> "draw_puddles"
                   [] condition = "Snow" -> "draw_snow_drifts"
                   [] OTHER -> "draw_grass_details",
     sway_time |-> IF condition \in {"Rain", "Drizzle", "Snow"}
                   THEN -1 ELSE now["grass"]]

render_weather_canvas(condition, temperature, humidity, wind_speed, is_day, now) ==
    [sky |-> "draw_sky_gradient",
     ground |-> draw_ground_terrain(condition, now),
     centerpiece |-> centerpiece(condition, temperature, humidity, wind_speed,
                                 is_day, now),
     wind |-> IF wind_speed > 8 * Tenths
              THEN draw_wind_patterns(wind_speed, now)
              ELSE [drawn |-> FALSE],
     indicators |-> draw_weather_indicators(temperature, humidity, wind_speed)]

----------------------------------------------------------------------------
(* render_current_weather_canvas: the weather scene of the first hourly    *)
(* entry, or the fallback panel when there is none.                        *)

is_daytime(hour) == hour >= 6 /\ hour < 18

\* The draw commands of the fallback panel: the error background, the
\* three sides of the warning triangle, the exclamation mark and its dot.
fallback_commands ==
    << Rectangle(100, 80, 200, 40, "DarkGray"),
       Line(200, 90, 190, 110, "Red"),
       Line(190, 110, 210, 110, "Red"),
       Line(210, 110, 200, 90, "Red"),
       Line(200, 95, 200, 105, "Red"),
       PointsAt(200, 108, "Red") >>

render_current_weather_canvas_no_fallback(hourly_data, now) ==
    IF hourly_data # << >>
    THEN LET current == hourly_data[1] IN
         [title |-> "Weather Visualization",
          commands |-> << >>,
          scene |-> << render_weather_canvas(
                          current.main_condition, current.temperature,
                          current.humidity, current.wind_speed,
                          is_daytime(current.hour), now) >>]
    ELSE [title |-> "No Weather Data Available",
          commands |-> << >>,
          scene |-> << >>]

render_current_weather_canvas(hourly_data, now) ==
    IF hourly_data # << >>
    THEN LET current == hourly_data[1] IN
         [title |-> "Weather Visualization",
          commands |-> << >>,
          scene |-> << render_weather_canvas(
                          current.main_condition, current.temperature,
                          current.humidity, current.wind_speed,
                          is_daytime(current.hour), now) >>]
    ELSE [title |-> "No Weather Data Available",
          commands |-> fallback_commands,
          scene |-> << >>]

----------------------------------------------------------------------------
(* render_forecast_canvas: one slot per day for the first seven days, each *)
(* with its icon, its temperature bar and, while i < 6, a separator.       *)

mini_icon(condition) ==
    CASE condition = "Clear"             -> "sun"
      [] condition = "Clouds"            -> "clouds"
      [] condition \in {"Rain", "Drizzle"} -> "rain"
      [] condition = "Thunderstorm"      -> "storm"
      [] condition = "Snow"              -> "snow"
      [] condition \in {"Fog", "Mist"}   -> "fog"
      [] OTHER                           -> "question_mark"

\* The slot of day i (counted from 0, as the loop does).
day_slot(i, day, separator_below) ==
    LET x_offset == i * 70 + 10 IN
    [x_offset |-> x_offset,
     icon |-> mini_icon(day.main_condition),
     bar_points |-> AsUnsigned(Min(day.temp_max * 8, 25 * 10 * Tenths),
                               10 * Tenths),
     bar_color |-> temp_color(day.temp_max),
     separator |-> IF i < separator_below
                   THEN << Line(x_offset + 70, 0, x_offset + 70, 100,
                                "DarkGray") >>
                   ELSE << >>]

render_forecast_canvas_no_take(daily_data) ==
    [k \in 1..Len(daily_data) |-> day_slot(k - 1, daily_data[k], 6)]

render_forecast_canvas(daily_data) ==
    [k \in 1..Min(Len(daily_data), 7) |-> day_slot(k - 1, daily_data[k], 6)]

\* The slots and the separators a strip draws.
RECURSIVE SeparatorCount(_)
SeparatorCount(slots) ==
    IF slots = << >> THEN 0
    ELSE Len(slots[1].separator) + SeparatorCount(Tail(slots))

----------------------------------------------------------------------------
(* render_weather_calendar: the text lines of the calendar view.  A date   *)
(* is its number of hours since the epoch, pop is in hundredths.           *)

\* convert_to_local: the date moved by the offset of the timezone name.
hours_offset(timezone) ==
    CASE timezone \in {"America/New_York", "EST", "EDT"} -> -5
      [] timezone \in {"America/Chicago", "CST", "CDT"} -> -6
      [] timezone \in {"America/Denver", "MST", "MDT"} -> -7
      [] timezone \in {"America/Los_Angeles", "PST", "PDT"} -> -8
      [] timezone \in {"America/Anchorage", "AKST", "AKDT"} -> -9
      [] timezone \in {"Pacific/Honolulu", "HST"} -> -10
      [] timezone \in {"Europe/London", "GMT", "BST"} -> 0
      [] timezone \in {"Europe/Paris", "Europe/Berlin", "Europe/Rome", "CET",
                       "CEST"} -> 1
      [] timezone \in {"Europe/Athens", "Europe/Istanbul", "EET", "EEST"} -> 2
      [] timezone = "Asia/Dubai" -> 4
      [] timezone \in {"Asia/Kolkata", "IST"} -> 5
      [] timezone \in {"Asia/Shanghai", "Asia/Singapore"} -> 8
      [] timezone \in {"Asia/Tokyo", "JST"} -> 9
      [] timezone \in {"Australia/Sydney", "AEST", "AEDT"} -> 10
      [] OTHER -> 0

convert_to_local(time, timezone) == time + hours_offset(timezone)

\* format("%A"): the epoch was a Thursday.
Weekdays ==
    <<"Thursday", "Friday", "Saturday", "Sunday", "Monday", "Tuesday",
      "Wednesday">>

\* `x as u8` of the f64 n/d (d > 0): truncated, saturating at 0 and 255.
AsU8(n, d) == IF n <= 0 THEN 0 ELSE Min(n \div d, U8Max)

calendar_color(condition) ==
    CASE condition = "Clear" -> "Yellow"
      [] condition = "Clouds" -> "Gray"
      [] condition \in {"Rain", "Drizzle"} -> "Blue"
      [] condition = "Thunderstorm" -> "Magenta"
      [] condition = "Snow" -> "White"
      [] OTHER -> "Gray"

\* The line of one day; local_day stands for the "%m/%d" of the local date.
calendar_line(day, location) ==
    LET local_date == convert_to_local(day.date, location.timezone) IN
    [kind |-> "day",
     weekday |-> Weekdays[((local_date \div 24) % 7) + 1],
     local_day |-> local_date \div 24,
     emoji |-> get_emoji(day.main_condition),
     condition |-> to_string(day.main_condition),
     color |-> calendar_color(day.main_condition),
     temp_min |-> AsI32(day.temp_min, Tenths),
     temp_max |-> AsI32(day.temp_max, Tenths),
     pop_percent |-> AsU8(day.pop, 1)]

CalendarTitle == [kind |-> "text", text |-> "7-Day Weather Calendar"]
CalendarBlank == [kind |-> "text", text |-> ""]
CalendarLegend == [kind |-> "text", text |-> "Legend: Temperature Range | Rain %"]

render_weather_calendar_no_take(daily_data, location) ==
    << CalendarTitle, CalendarBlank >>
    \o [k \in 1..Len(daily_data) |-> calendar_line(daily_data[k], location)]
    \o << CalendarBlank, CalendarLegend >>

render_weather_calendar(daily_data, location) ==
    << CalendarTitle, CalendarBlank >>
    \o [k \in 1..Min(Len(daily_data), 7) |->
           calendar_line(daily_data[k], location)]
    \o << CalendarBlank, CalendarLegend >>

----------------------------------------------------------------------------
(* truncate_string.  A string is the sequence of its characters; its len() *)
(* and its slices count UTF-8 bytes.                                       *)

Alphabet == {"a", "b", "U+00E9"}

\* The UTF-8 length of a character: U+00E9 takes two bytes.
len_utf8(ch) == IF ch = "U+00E9" THEN 2 ELSE 1

RECURSIVE len(_)
len(s) == IF s = << >> THEN 0 ELSE len_utf8(Head(s)) + len(Tail(s))

\* The largest usize the model holds: 2^31 - 1 stands for 2^64 - 1, of
\* which only its being beyond the length of every string is used.
USizeMax == 2147483647

\* a - b on usize in a release build: wraps around.
wrapping_sub(a, b) == IF a >= b THEN a - b ELSE (USizeMax - b) + a + 1

Panicked == [result |-> "panic"]
Returned(v) == [result |-> "ok", value |-> v]

\* &s[..end]: panics when end is beyond the string or inside a character.
RECURSIVE slice_to(_, _)
slice_to(s, end) ==
    IF end = 0 THEN Returned(<< >>)
    ELSE IF s = << >> \/ len_utf8(Head(s)) > end THEN Panicked
    ELSE LET rest == slice_to(Tail(s), end - len_utf8(Head(s))) IN
         IF rest = Panicked THEN Panicked
         ELSE Returned(<<Head(s)>> \o rest.value)

ellipsis(cut) ==
    IF cut = Panicked THEN Panicked
    ELSE Returned(cut.value \o <<".", ".", ".">>)

\* The outcomes the builds can produce.  `max_len - 3` overflows below 3:
\* a debug build panics at the subtraction, a release build slices to the
\* wrapped end.
truncate_string(s, max_len) ==
    IF len(s) <= max_len
    THEN {Returned(s)}
    ELSE IF max_len >= 3
    THEN {ellipsis(slice_to(s, max_len - 3))}
    ELSE {Panicked, ellipsis(slice_to(s, wrapping_sub(max_len, 3)))}

----------------------------------------------------------------------------
(* State.                                                                  *)

VARIABLES
    pc,            \* where the caller is: "idle" (no controller), "draw",
                   \* "read" (inside the loop of run), "restore" (after the
                   \* loop), "drop" (run has returned or unwound)
    active_tab,    \* UiState.active_tab ("NoTab" before any controller)
    raw_mode,      \* the terminal is in raw mode
    alt_screen,    \* the alternate screen is entered
    mouse_capture, \* mouse capture is enabled
    cursor_hidden, \* the cursor is hidden
    outcome,       \* how the last session went: "none", "running", "ok",
                   \* "new_err", "draw_err", "read_err", "panic",
                   \* "restore_err"
    frames,        \* frames drawn in this session
    reads,         \* input events read in this session
    shown,         \* the tab the last frame showed ("NoFrame" before it)
    lastEvent,     \* the last event read (NoEvent before it)
    hist,          \* the keys pressed by the last three events read
    tabLog,        \* active_tab before and after each event of hist
    sessions,      \* calls of WeatherTui::new so far
    prevEndTab,    \* active_tab when the previous controller was dropped
    hourly_data,   \* UiState.hourly_data
    daily_data,    \* UiState.daily_data
    location,      \* UiState.location
    config,        \* UiState.config
    given,         \* the forecast data the caller fetched and passes to
                   \* WeatherTui::new
    content,       \* what the last frame drew in its content region
    fn_in,         \* the scene function applied and its arguments
    fn_out         \* what it returned

vars == <<pc, active_tab, raw_mode, alt_screen, mouse_capture, cursor_hidden,
          outcome, frames, reads, shown, lastEvent, hist, tabLog, sessions,
          prevEndTab, hourly_data, daily_data, location, config, given,
          content, fn_in, fn_out>>

held == <<hourly_data, daily_data, location, config, given>>
pure == <<fn_in, fn_out>>

term  == <<raw_mode, alt_screen, mouse_capture, cursor_hidden>>
ghost == <<frames, reads, shown, lastEvent, hist, tabLog>>

\* The forecast data a caller passes to WeatherTui::new: empty lists, or
\* one hourly entry and two daily entries.
SampleLocation ==
    [name |-> "Berlin", country |-> "Germany", country_code |-> "DE",
     timezone |-> "Europe/Berlin"]

SampleConfig == [units |-> "metric"]

SampleHour ==
    [hour |-> 12, temperature |-> 21 * Tenths + 5, humidity |-> 60,
     wind_speed |-> 3 * Tenths + 5, main_condition |-> "Clear"]

\* Day d (counted from the epoch) at noon UTC, condition c, maximum t.
SampleDay(d, c, t) ==
    [date |-> 24 * d + 12, main_condition |-> c, temp_min |-> (t - 6) * Tenths,
     temp_max |-> t * Tenths, pop |-> 40]

NoData ==
    [hourly_data |-> << >>, daily_data |-> << >>,
     location |-> SampleLocation, config |-> SampleConfig]

SampleData ==
    [hourly_data |-> << SampleHour >>,
     daily_data |-> << SampleDay(1, "Rain", 18), SampleDay(2, "Snow", -2) >>,
     location |-> SampleLocation, config |-> SampleConfig]

NoContent == [selected |-> -1, view |-> "none", title |-> "NoContent",
              commands |-> << >>, scenes |-> 0, slots |-> 0, lines |-> << >>]
NoCall == [fn |-> "none"]

\* The index the tab bar highlights: the match inside Tabs::select.
tabs_select_from_one(tab) ==
    CASE tab = "CurrentWeather" -> 1
      [] tab = "WeatherForecast" -> 2
      [] tab = "Calendar" -> 3

tabs_select(tab) ==
    CASE tab = "CurrentWeather" -> 0
      [] tab = "WeatherForecast" -> 1
      [] tab = "Calendar" -> 2

\* What a frame draws for the snapshot of the active tab: the highlighted
\* entry of the tab bar and, by the match of run() on the snapshot, the
\* content region.
frame_content(tab, hourly, daily, location_, now) ==
    CASE tab = "CurrentWeather" ->
           LET c == render_current_weather_canvas(hourly, now) IN
           [selected |-> tabs_select(tab),
            view |-> "render_current_weather_canvas",
            title |-> c.title, commands |-> c.commands,
            scenes |-> Len(c.scene), slots |-> 0, lines |-> << >>]
      [] tab = "WeatherForecast" ->
           [selected |-> tabs_select(tab),
            view |-> "render_forecast_canvas",
            title |-> "7-Day Detailed Forecast", commands |-> << >>,
            scenes |-> 0, slots |-> Len(render_forecast_canvas(daily)),
            lines |-> << >>]
      [] tab = "Calendar" ->
           [selected |-> tabs_select(tab),
            view |-> "render_weather_calendar",
            title |-> "Weather Calendar", commands |-> << >>,
            scenes |-> 0, slots |-> 0,
            lines |-> render_weather_calendar(daily, location_)]

PureInit ==
    /\ fn_in = NoCall
    /\ fn_out = NoCall

TuiInit ==
    /\ pc = "idle"
    /\ active_tab = "NoTab"
    /\ raw_mode = FALSE
    /\ alt_screen = FALSE
    /\ mouse_capture = FALSE
    /\ cursor_hidden = FALSE
    /\ outcome = "none"
    /\ frames = 0
    /\ reads = 0
    /\ shown = "NoFrame"
    /\ lastEvent = NoEvent
    /\ hist = <<>>
    /\ tabLog = <<>>
    /\ sessions = 0
    /\ prevEndTab = "NoTab"
    /\ hourly_data = NoData.hourly_data
    /\ daily_data = NoData.daily_data
    /\ location = NoData.location
    /\ config = NoData.config
    /\ content = NoContent

\* The caller has fetched forecast data.
Init == TuiInit /\ given = SampleData /\ PureInit

\* The caller has fetched empty forecast lists.
InitNoData == TuiInit /\ given = NoData /\ PureInit

----------------------------------------------------------------------------
(* WeatherTui::new.  Each `?` of the constructor is a point where it can   *)
(* return an error; no WeatherTui exists then, so no Drop runs.            *)

\* Where the constructor fails: nowhere, at enable_raw_mode, at execute!
\* (which queues EnterAlternateScreen and EnableMouseCapture and flushes:
\* 0, 1 or 2 of them have reached the terminal), or at Terminal::new.
NewFailures == {"none", "raw", "exec0", "exec1", "exec2", "terminal"}

initial_tab_stale == active_tab

initial_tab == "CurrentWeather"

new ==
    /\ pc = "idle"
    /\ outcome \in {"none", "ok"}
    /\ sessions < MaxSessions
    /\ \E f \in NewFailures :
        /\ raw_mode' = IF f = "raw" THEN raw_mode ELSE TRUE
        /\ alt_screen' = IF f \in {"raw", "exec0"} THEN alt_screen ELSE TRUE
        /\ mouse_capture' = IF f \in {"raw", "exec0", "exec1"}
                            THEN mouse_capture ELSE TRUE
        /\ outcome' = IF f = "none" THEN "running" ELSE "new_err"
        /\ pc' = IF f = "none" THEN "draw" ELSE "idle"
        /\ active_tab' = IF f = "none" THEN initial_tab ELSE active_tab
        /\ tabLog' = IF f = "none" THEN <<active_tab'>> ELSE <<>>
        /\ hourly_data' = IF f = "none" THEN given.hourly_data ELSE hourly_data
        /\ daily_data' = IF f = "none" THEN given.daily_data ELSE daily_data
        /\ location' = IF f = "none" THEN given.location ELSE location
        /\ config' = IF f = "none" THEN given.config ELSE config
    /\ content' = NoContent
    /\ sessions' = sessions + 1
    /\ frames' = 0
    /\ reads' = 0
    /\ shown' = "NoFrame"
    /\ lastEvent' = NoEvent
    /\ hist' = <<>>
    /\ UNCHANGED <<cursor_hidden, prevEndTab, given, pure>>

----------------------------------------------------------------------------
(* WeatherTui::run, one loop iteration in two steps: draw, then read.      *)

DrawResults == {"ok", "err", "panic"}

\* Snapshot the state and draw one frame.  Terminal::draw hides the cursor
\* when the frame sets no cursor position (this one sets none).  An error
\* of draw is returned with `?`; a panic inside the closure unwinds.
run_draw_again ==
    /\ pc = "draw"
    /\ frames < MaxEvents + 2
    /\ frames' = frames + 1
    /\ shown' = active_tab
    /\ cursor_hidden' = TRUE
    /\ UNCHANGED <<pc, outcome, active_tab, raw_mode, alt_screen,
                   mouse_capture, reads, lastEvent, hist, tabLog, sessions,
                   prevEndTab, held, content, pure>>

run_draw ==
    /\ pc = "draw"
    /\ \E r \in DrawResults :
        /\ pc' = IF r = "ok" THEN "read" ELSE "drop"
        /\ outcome' = CASE r = "ok"    -> outcome
                        [] r = "err"   -> "draw_err"
                        [] r = "panic" -> "panic"
        /\ frames' = IF r = "ok" THEN frames + 1 ELSE frames
        /\ shown' = IF r = "ok" THEN active_tab ELSE shown
        /\ cursor_hidden' = IF r = "ok" THEN TRUE ELSE cursor_hidden
        /\ \E t \in {0, MaxClock} :
            content' = IF r = "ok"
                       THEN frame_content(active_tab, hourly_data, daily_data,
                                          location, AtInstant(t))
                       ELSE content
    /\ UNCHANGED <<active_tab, raw_mode, alt_screen, mouse_capture, reads,
                   lastEvent, hist, tabLog, sessions, prevEndTab, held, pure>>

\* event::read() returns an error, propagated with `?`.
run_read_error ==
    /\ pc = "read"
    /\ pc' = "drop"
    /\ outcome' = "read_err"
    /\ UNCHANGED <<active_tab, term, ghost, sessions, prevEndTab, held,
                   content, pure>>

\* run_read with a match that also drops the hourly data on a direct select.
run_read_drops_hourly ==
    /\ pc = "read"
    /\ \E ev \in Events :
        /\ reads < MaxEvents \/ Pressed(ev) \in {"q", "Esc"}
        /\ LET h == handle_event(ev, active_tab) IN
            /\ active_tab' = h.active_tab
            /\ pc' = IF h.brk THEN "restore" ELSE "draw"
        /\ lastEvent' = ev
        /\ hist' = Logged(hist, Pressed(ev), 3)
        /\ tabLog' = Logged(tabLog, active_tab', 4)
    /\ reads' = reads + 1
    /\ hourly_data' = IF lastEvent'.code = "1" THEN << >> ELSE hourly_data
    /\ UNCHANGED <<term, outcome, frames, shown, sessions, prevEndTab,
                   daily_data, location, config, given, content, pure>>

\* event::read() returns an event and the match applies it.
run_read ==
    /\ pc = "read"
    /\ \E ev \in Events :
        /\ reads < MaxEvents \/ Pressed(ev) \in {"q", "Esc"}
        /\ LET h == handle_event(ev, active_tab) IN
            /\ active_tab' = h.active_tab
            /\ pc' = IF h.brk THEN "restore" ELSE "draw"
        /\ lastEvent' = ev
        /\ hist' = Logged(hist, Pressed(ev), 3)
        /\ tabLog' = Logged(tabLog, active_tab', 4)
    /\ reads' = reads + 1
    /\ UNCHANGED <<term, outcome, frames, shown, sessions, prevEndTab, held,
                   content, pure>>

\* The code after the loop.  Each of its three calls can fail and return
\* the error with `?`, skipping the calls after it.
RestoreFailures == {"none", "raw", "exec0", "exec1", "exec2", "cursor"}

run_restore ==
    /\ pc = "restore"
    /\ \E f \in RestoreFailures :
        /\ raw_mode' = IF f = "raw" THEN raw_mode ELSE FALSE
        /\ alt_screen' = IF f \in {"raw", "exec0"} THEN alt_screen ELSE FALSE
        /\ mouse_capture' = IF f \in {"raw", "exec0", "exec1"}
                            THEN mouse_capture ELSE FALSE
        /\ cursor_hidden' = IF f = "none" THEN FALSE ELSE cursor_hidden
        /\ outcome' = IF f = "none" THEN "ok" ELSE "restore_err"
    /\ pc' = "drop"
    /\ UNCHANGED <<active_tab, ghost, sessions, prevEndTab, held, content,
                   pure>>

----------------------------------------------------------------------------
(* impl Drop for WeatherTui: runs when the caller's `tui` goes out of      *)
(* scope, after run() returned Ok or Err and during an unwind.  The        *)
(* results of its three calls are discarded, so all three are made.        *)

drop_keeps_raw_mode ==
    /\ pc = "drop"
    /\ alt_screen' = FALSE
    /\ mouse_capture' = FALSE
    /\ cursor_hidden' = FALSE
    /\ pc' = "idle"
    /\ prevEndTab' = active_tab
    /\ UNCHANGED <<raw_mode, active_tab, outcome, ghost, sessions, held,
                   content, pure>>

drop ==
    /\ pc = "drop"
    /\ raw_mode' = FALSE
    /\ alt_screen' = FALSE
    /\ mouse_capture' = FALSE
    /\ cursor_hidden' = FALSE
    /\ pc' = "idle"
    /\ prevEndTab' = active_tab
    /\ UNCHANGED <<active_tab, outcome, ghost, sessions, held, content,
                   pure>>

----------------------------------------------------------------------------

Next ==
    \/ new
    \/ run_draw
    \/ run_read
    \/ run_read_error
    \/ run_restore
    \/ drop

Spec == Init /\ [][Next]_vars

SpecNoData == InitNoData /\ [][Next]_vars

----------------------------------------------------------------------------
(* A caller that calls run() on its controller again.  run() is public and *)
(* takes &mut self, so after it has returned Ok the controller is still    *)
(* there to be run; run() starts with its loop and acquires nothing.       *)

run_again ==
    /\ pc = "drop"
    /\ outcome = "ok"
    /\ pc' = "draw"
    /\ outcome' = "running"
    /\ frames' = 0
    /\ reads' = 0
    /\ lastEvent' = NoEvent
    /\ hist' = <<>>
    /\ tabLog' = <<active_tab>>
    /\ UNCHANGED <<active_tab, term, shown, sessions, prevEndTab, held,
                   content, pure>>

NextRerun ==
    \/ new
    \/ run_draw
    \/ run_read
    \/ run_read_error
    \/ run_restore
    \/ run_again
    \/ drop

SpecRerun == Init /\ [][NextRerun]_vars

----------------------------------------------------------------------------
(* The scene functions applied to inputs drawn from bounded sets: one      *)
(* application per behaviour, its arguments in fn_in, its result in        *)
(* fn_out.  No controller is constructed.                                  *)

tui == <<pc, active_tab, term, ghost, outcome, sessions, prevEndTab, held,
         content>>

SceneInit == TuiInit /\ given = NoData /\ PureInit

\* A daily list of n entries: conditions in enum order from the one after
\* `first`, maximum temperatures rising by 3 degrees a day from t.
DailyList(n, first, t) ==
    [k \in 1..n |->
        [date |-> 24 * k + 23,
         main_condition |-> ConditionOrder[((first + k) % Len(ConditionOrder)) + 1],
         temp_min |-> t + 3 * Tenths * k - 7 * Tenths - 5,
         temp_max |-> t + 3 * Tenths * k,
         pop |-> ((first + 3 * k) * 17) % 130]]

ListTemps == {-12 * Tenths, 4 * Tenths + 5, 20 * Tenths}

apply_render_forecast_canvas ==
    /\ fn_in = NoCall
    /\ \E n \in 0..MaxDays, first \in 0..(Len(ConditionOrder) - 1),
          t \in ListTemps :
        LET daily == DailyList(n, first, t) IN
        /\ fn_in' = [fn |-> "render_forecast_canvas", daily_data |-> daily]
        /\ fn_out' = render_forecast_canvas(daily)
    /\ UNCHANGED tui

Timezones == {"Europe/Berlin", "America/New_York", "UTC"}

apply_render_weather_calendar ==
    /\ fn_in = NoCall
    /\ \E n \in 0..MaxDays, first \in 0..(Len(ConditionOrder) - 1),
          t \in ListTemps, tz \in Timezones :
        LET daily == DailyList(n, first, t)
            loc == [SampleLocation EXCEPT !.timezone = tz] IN
        /\ fn_in' = [fn |-> "render_weather_calendar", daily_data |-> daily,
                     location |-> loc]
        /\ fn_out' = render_weather_calendar(daily, loc)
    /\ UNCHANGED tui

\* The strings of up to MaxStr characters.
Strings == UNION {[1..n -> Alphabet] : n \in 0..MaxStr}

apply_truncate_string ==
    /\ fn_in = NoCall
    /\ \E s \in Strings, max_len \in 0..(MaxStr + 2) :
        /\ fn_in' = [fn |-> "truncate_string", s |-> s, max_len |-> max_len]
        /\ fn_out' \in truncate_string(s, max_len)
    /\ UNCHANGED tui

Temperatures == (-(MaxTemp * Tenths))..(MaxTemp * Tenths)
WindSpeeds == 0..(MaxWind * Tenths)

\* The wind overlay of a scene, for every wind speed.
apply_wind_overlay ==
    /\ fn_in = NoCall
    /\ \E wind_speed \in WindSpeeds, condition \in {"Clear", "Snow"} :
        /\ fn_in' = [fn |-> "wind_overlay", condition |-> condition,
                     wind_speed |-> wind_speed]
        /\ fn_out' = render_weather_canvas(condition, 12 * Tenths + 5, 50,
                                           wind_speed, TRUE, AtInstant(0)).wind
    /\ UNCHANGED tui

apply_draw_magnificent_sun ==
    /\ fn_in = NoCall
    /\ \E temperature \in Temperatures :
        /\ fn_in' = [fn |-> "draw_magnificent_sun",
                     temperature |-> temperature]
        /\ fn_out' = draw_magnificent_sun(temperature)
    /\ UNCHANGED tui

\* A frame painted while the wall clock goes from t to t + 1 before the
\* call of site number `tick` (after the last call when tick is beyond
\* them).
ClockDuring(t, tick) ==
    [s \in ClockSites |->
        LET k == CHOOSE j \in 1..Len(CallOrder) : CallOrder[j] = s IN
        IF k < tick THEN t ELSE t + 1]

FrameClocks == {79, 149, 199, 1199}

apply_paint_frame ==
    /\ fn_in = NoCall
    /\ \E condition \in {"Clear", "Rain", "Thunderstorm", "Snow", "Fog",
                          "Tornado"},
          is_day \in BOOLEAN, wind_speed \in {0, 9 * Tenths},
          t \in FrameClocks, tick \in 1..(Len(CallOrder) + 1) :
        LET now == ClockDuring(t, tick) IN
        /\ fn_in' = [fn |-> "paint_frame", condition |-> condition,
                     is_day |-> is_day, wind_speed |-> wind_speed,
                     now |-> now]
        /\ fn_out' = [scene |-> render_weather_canvas(
                                    condition, 12 * Tenths + 5, 50, wind_speed,
                                    is_day, now),
                      reads |-> clock_reads(condition, is_day, wind_speed)]
    /\ UNCHANGED tui

\* One drop of the rain at a clock reading and one animation tick later.
RainTick == 120

apply_draw_rain_system ==
    /\ fn_in = NoCall
    /\ \E heavy_rain \in BOOLEAN, layer \in {0, 1, 24}, i \in {0, 1, 44},
          time \in 0..(MaxClock - RainTick) :
        /\ time % RainTick = 0
        /\ fn_in' = [fn |-> "draw_rain_system", heavy_rain |-> heavy_rain,
                     layer |-> layer, i |-> i, time |-> time]
        /\ fn_out' =
              [k \in 1..2 |->
                 LET at == AtInstant(time + (k - 1) * RainTick)
                     rain == draw_rain_system(heavy_rain, 0, at) IN
                 [animation_offset |-> rain.anim.animation_offset,
                  y_pos |-> y_pos(heavy_rain, layer, i,
                                  rain.anim.animation_offset)]]
    /\ UNCHANGED tui

SceneWinds == {0, 8 * Tenths, 8 * Tenths + 1, MaxWind * Tenths}

apply_draw_storm_system ==
    /\ fn_in = NoCall
    /\ \E time \in 0..MaxClock, wind_speed \in {0, MaxWind * Tenths} :
        /\ fn_in' = [fn |-> "draw_storm_system", wind_speed |-> wind_speed,
                     time |-> time]
        /\ fn_out' = draw_storm_system(wind_speed, AtInstant(time))
    /\ UNCHANGED tui

apply_draw_cloud_formations ==
    /\ fn_in = NoCall
    /\ \E humidity \in 0..U8Max, is_day \in BOOLEAN :
        /\ fn_in' = [fn |-> "draw_cloud_formations", humidity |-> humidity,
                     is_day |-> is_day, is_storm |-> FALSE]
        /\ fn_out' = draw_cloud_formations(humidity, is_day, FALSE)
    /\ UNCHANGED tui

apply_draw_weather_indicators ==
    /\ fn_in = NoCall
    /\ \E temperature \in Temperatures, humidity \in {0, 60, U8Max},
          wind_speed \in {0, MaxWind * Tenths} :
        /\ fn_in' = [fn |-> "draw_weather_indicators",
                     temperature |-> temperature, humidity |-> humidity,
                     wind_speed |-> wind_speed]
        /\ fn_out' = draw_weather_indicators(temperature, humidity, wind_speed)
    /\ UNCHANGED tui

\* render_weather_canvas applied twice to one tuple, at two clock readings.
SceneTemps == {-8 * Tenths, 12 * Tenths + 5, 41 * Tenths}
SceneHumidities == {20, 50, 95}
SceneClocks == {0, 50, 550, 1000, 2050, 4050, MaxClock}

apply_render_weather_canvas ==
    /\ fn_in = NoCall
    /\ \E condition \in WeatherConditions, temperature \in SceneTemps,
          humidity \in SceneHumidities, wind_speed \in SceneWinds,
          is_day \in BOOLEAN, t1 \in SceneClocks, t2 \in SceneClocks :
        /\ fn_in' = [fn |-> "render_weather_canvas", condition |-> condition,
                     temperature |-> temperature, humidity |-> humidity,
                     wind_speed |-> wind_speed, is_day |-> is_day,
                     clocks |-> <<t1, t2>>]
        /\ fn_out' = << render_weather_canvas(condition, temperature, humidity,
                                              wind_speed, is_day, AtInstant(t1)),
                        render_weather_canvas(condition, temperature, humidity,
                                              wind_speed, is_day, AtInstant(t2)) >>
    /\ UNCHANGED tui

apply_condition_lookups ==
    /\ fn_in = NoCall
    /\ \E condition \in WeatherConditions :
        /\ fn_in' = [fn |-> "WeatherCondition", condition |-> condition]
        /\ fn_out' = [emoji |-> get_emoji(condition),
                      display |-> to_string(condition)]
    /\ UNCHANGED tui

SceneNext ==
    \/ apply_render_forecast_canvas
    \/ apply_render_weather_calendar
    \/ apply_truncate_string
    \/ apply_wind_overlay
    \/ apply_draw_magnificent_sun
    \/ apply_paint_frame
    \/ apply_draw_rain_system
    \/ apply_draw_storm_system
    \/ apply_draw_cloud_formations
    \/ apply_draw_weather_indicators
    \/ apply_render_weather_canvas
    \/ apply_condition_lookups

SpecScene == SceneInit /\ [][SceneNext]_vars

TypeOK ==
    /\ pc \in {"idle", "draw", "read", "restore", "drop"}
    /\ active_tab \in Tabs \cup {"NoTab"}
    /\ raw_mode \in BOOLEAN
    /\ alt_screen \in BOOLEAN
    /\ mouse_capture \in BOOLEAN
    /\ cursor_hidden \in BOOLEAN
    /\ frames \in 0..(MaxEvents + 2)
    /\ reads \in 0..(MaxEvents + 1)
    /\ sessions \in 0..MaxSessions

----------------------------------------------------------------------------
(* The claims.                                                             *)

NextKeys == {"Right", "Tab"}
PrevKeys == {"Left", "BackTab"}
QuitKeys == {"q", "Esc"}

\* The cyclic order of the tabs, as the tab bar lists them.
TabOrder == <<"CurrentWeather", "WeatherForecast", "Calendar">>
TabIndex(t) == CHOOSE i \in 1..Len(TabOrder) : TabOrder[i] = t
CyclicSucc(t) == TabOrder[(TabIndex(t) % Len(TabOrder)) + 1]
CyclicPred(t) == TabOrder[((TabIndex(t) + Len(TabOrder) - 2) % Len(TabOrder)) + 1]

Restored ==
    /\ ~raw_mode
    /\ ~alt_screen
    /\ ~mouse_capture
    /\ ~cursor_hidden

SessionLeft ==
    /\ pc = "idle"
    /\ outcome \in {"ok", "draw_err", "read_err", "panic", "restore_err"}

QuitPressed == hist # <<>> /\ hist[Len(hist)] \in QuitKeys

\* C1: once a controller has been constructed, every way of leaving the
\* session (quit, an error of draw, an error of read, an error of the
\* restore code after the loop, an unwind) ends with raw mode disabled, the
\* alternate screen left, mouse capture disabled and the cursor shown.
C1_RestoredOnEveryExit == SessionLeft => Restored

\* C1's case: a session that drew a frame and was left by an error of
\* event::read, never reaching the code after the loop.
C1_Witness ==
    /\ SessionLeft
    /\ outcome = "read_err"
    /\ frames > 0
    /\ Restored

\* C2: when WeatherTui::new returns an error, every terminal state it had
\* entered (raw mode, alternate screen, mouse capture) has been restored.
C2_PartialAcquisitionRestored ==
    outcome = "new_err" => ~raw_mode /\ ~alt_screen /\ ~mouse_capture

\* C3: a press of q or Escape, in any tab, ends the loop: the controller is
\* no longer drawing or reading, and no frame is drawn and no input is read
\* afterwards in that session.
C3_QuitEndsLoop ==
    [][ /\ QuitPressed' => pc' \notin {"draw", "read"}
        /\ (QuitPressed /\ sessions' = sessions) =>
               (frames' = frames /\ reads' = reads) ]_vars

\* C3's case: Escape pressed on the Calendar tab, the session over.
C3_Witness ==
    /\ QuitPressed
    /\ hist[Len(hist)] = "Esc"
    /\ active_tab = "Calendar"
    /\ pc = "idle"
    /\ outcome = "ok"

\* C4: every press of Right or Tab moves to the next tab of the cycle
\* CurrentWeather -> WeatherForecast -> Calendar -> CurrentWeather, and
\* three such presses in a row return to the tab they started from, having
\* visited all three tabs.
C4_NextIsCyclic ==
    /\ \A i \in 1..Len(hist) :
         hist[i] \in NextKeys => tabLog[i + 1] = CyclicSucc(tabLog[i])
    /\ (Len(hist) = 3 /\ \A i \in 1..3 : hist[i] \in NextKeys) =>
         /\ tabLog[4] = tabLog[1]
         /\ {tabLog[1], tabLog[2], tabLog[3]} = Tabs

\* C4's case: Right, Tab, Right pressed starting on the Calendar tab.
C4_Witness ==
    /\ hist = <<"Right", "Tab", "Right">>
    /\ tabLog = <<"Calendar", "CurrentWeather", "WeatherForecast", "Calendar">>

\* C5: every press of Left or Shift+Tab moves to the previous tab of the
\* cycle (from CurrentWeather to Calendar), and it undoes a press of Right
\* or Tab just before it, as a press of Right or Tab undoes it.
C5_PrevInvertsNext ==
    /\ \A i \in 1..Len(hist) :
         hist[i] \in PrevKeys => tabLog[i + 1] = CyclicPred(tabLog[i])
    /\ \A i \in 1..Len(hist) :
         (hist[i] \in PrevKeys /\ tabLog[i] = "CurrentWeather") =>
             tabLog[i + 1] = "Calendar"
    /\ \A i \in 1..(Len(hist) - 1) :
         /\ (hist[i] \in NextKeys /\ hist[i + 1] \in PrevKeys) =>
                tabLog[i + 2] = tabLog[i]
         /\ (hist[i] \in PrevKeys /\ hist[i + 1] \in NextKeys) =>
                tabLog[i + 2] = tabLog[i]

\* C5's case: Left on CurrentWeather wraps to Calendar, Tab undoes it, and
\* Shift+Tab undoes that Tab.
C5_Witness ==
    /\ hist = <<"Left", "Tab", "BackTab">>
    /\ tabLog = <<"CurrentWeather", "Calendar", "CurrentWeather", "Calendar">>

\* C6: from every tab, a press of 1 yields CurrentWeather, of 2
\* WeatherForecast and of 3 Calendar.
C6_DirectSelect ==
    \A i \in 1..Len(hist) :
        /\ hist[i] = "1" => tabLog[i + 1] = "CurrentWeather"
        /\ hist[i] = "2" => tabLog[i + 1] = "WeatherForecast"
        /\ hist[i] = "3" => tabLog[i + 1] = "Calendar"

\* C6's case: 3 pressed on CurrentWeather, 3 again on Calendar (the active
\* tab), then 2.
C6_Witness ==
    /\ hist = <<"3", "3", "2">>
    /\ tabLog = <<"CurrentWeather", "Calendar", "Calendar", "WeatherForecast">>

C8_StartsOnCurrentWeather ==
    /\ (outcome = "running" /\ reads = 0) => active_tab = "CurrentWeather"
    /\ (frames > 0 /\ reads = 0) => shown = "CurrentWeather"

\* C8's case: the first frame of a second session, the first session
\* having ended on the Calendar tab.
C8_Witness ==
    /\ sessions = 2
    /\ prevEndTab = "Calendar"
    /\ outcome = "running"
    /\ frames = 1
    /\ reads = 0
    /\ shown = "CurrentWeather"

\* The one transition an event stands for: the tab after it.
OneTransition(k, t) ==
    CASE k \in NextKeys -> CyclicSucc(t)
      [] k \in PrevKeys -> CyclicPred(t)
      [] k = "1" -> "CurrentWeather"
      [] k = "2" -> "WeatherForecast"
      [] k = "3" -> "Calendar"
      [] OTHER -> t

\* C9: one input event causes at most one transition: the tab after it is
\* the tab before it with the event's one transition applied (next, prev,
\* a direct select, or none), and an event that ends the loop leaves the
\* tab unchanged.
C9_OneTransitionPerEvent ==
    [][ reads' = reads + 1 =>
            /\ active_tab' = OneTransition(hist'[Len(hist')], active_tab)
            /\ pc' \in {"draw", "restore"}
            /\ pc' = "restore" => active_tab' = active_tab ]_vars

\* C9's case: Tab pressed on WeatherForecast moved one tab on, to Calendar.
C9_Witness ==
    /\ Len(hist) >= 1
    /\ hist[Len(hist)] = "Tab"
    /\ tabLog[Len(hist)] = "WeatherForecast"
    /\ active_tab = "Calendar"
    /\ pc = "draw"

\* C10: drawing and reading alternate strictly: a frame is drawn before the
\* first read, one frame between two reads, and no frame without an event
\* read since the frame before it.
C10_DrawReadAlternate ==
    /\ reads <= frames
    /\ frames <= reads + 1
    /\ pc = "read" => frames = reads + 1
    /\ pc = "draw" => frames = reads

\* C10's case: the third frame drawn, two events read, waiting for the
\* third.
C10_Witness ==
    /\ pc = "read"
    /\ frames = 3
    /\ reads = 2

----------------------------------------------------------------------------
(* The forecast data the controller holds.                                 *)

\* C11: while a controller exists, the hourly data, the daily data, the
\* location and the config it holds are the ones it was constructed with,
\* whatever events have been read.
C11_DataUnchanged ==
    pc \in {"draw", "read", "restore", "drop"} =>
        /\ hourly_data = given.hourly_data
        /\ daily_data = given.daily_data
        /\ location = given.location
        /\ config = given.config

\* C11's case: three events read, the first of them the key 1, the tab
\* moved to Calendar, and the hourly list still there.
C11_Witness ==
    /\ reads = 3
    /\ hist[1] = "1"
    /\ active_tab = "Calendar"
    /\ pc = "draw"
    /\ hourly_data # << >>
    /\ hourly_data = given.hourly_data

\* C12: with an empty hourly list a CurrentWeather frame shows the fallback
\* panel: the background rectangle, the three sides of the warning
\* triangle, the exclamation mark and its dot, and no weather scene; the
\* session is running after it and waits for the next event.
C12_EmptyHourlyFallback ==
    (shown = "CurrentWeather" /\ hourly_data = << >>) =>
        /\ content.commands # << >>
        /\ content.commands =
              << [shape |-> "Rectangle", x |-> 100, y |-> 80, width |-> 200,
                  height |-> 40, color |-> "DarkGray"],
                 [shape |-> "Line", x1 |-> 200, y1 |-> 90, x2 |-> 190,
                  y2 |-> 110, color |-> "Red"],
                 [shape |-> "Line", x1 |-> 190, y1 |-> 110, x2 |-> 210,
                  y2 |-> 110, color |-> "Red"],
                 [shape |-> "Line", x1 |-> 210, y1 |-> 110, x2 |-> 200,
                  y2 |-> 90, color |-> "Red"],
                 [shape |-> "Line", x1 |-> 200, y1 |-> 95, x2 |-> 200,
                  y2 |-> 105, color |-> "Red"],
                 [shape |-> "Points", x |-> 200, y |-> 108, color |-> "Red"] >>
        /\ content.scenes = 0
        /\ content.title = "No Weather Data Available"
        /\ pc = "read" => outcome = "running"

\* C12's case: a session without hourly data that showed the fallback
\* panel, went to the forecast and back, showed the panel again, and was
\* left with q.
C12_Witness ==
    /\ hourly_data = << >>
    /\ hist = <<"Right", "Left", "q">>
    /\ tabLog = <<"CurrentWeather", "WeatherForecast", "CurrentWeather",
                  "CurrentWeather">>
    /\ shown = "CurrentWeather"
    /\ frames = 3
    /\ Len(content.commands) = 6
    /\ outcome = "ok"

----------------------------------------------------------------------------
(* The 7-day strip.                                                        *)

\* C13: a daily list of seven or more entries draws exactly 7 day slots
\* and exactly 6 separators; a list of any length draws at most 7 slots
\* and at most 6 separators.
C13_SevenSlotsSixSeparators ==
    fn_in.fn = "render_forecast_canvas" =>
        /\ Len(fn_in.daily_data) >= 7 =>
              /\ Len(fn_out) = 7
              /\ SeparatorCount(fn_out) = 6
        /\ Len(fn_out) <= 7
        /\ SeparatorCount(fn_out) <= 6

\* C13's case: a list of nine days drew seven slots and six separators.
C13_Witness ==
    /\ fn_in.fn = "render_forecast_canvas"
    /\ Len(fn_in.daily_data) = 9
    /\ Len(fn_out) = 7
    /\ SeparatorCount(fn_out) = 6

\* C14: a strip of n slots (1 <= n <= 7) draws exactly n - 1 separators,
\* and none after its last slot.
C14_SeparatorsOnlyBetweenSlots ==
    (fn_in.fn = "render_forecast_canvas" /\ Len(fn_out) >= 1) =>
        /\ SeparatorCount(fn_out) = Len(fn_out) - 1
        /\ fn_out[Len(fn_out)].separator = << >>

----------------------------------------------------------------------------
(* Lightning.                                                              *)

\* C15: with c the clock reading modulo 4000, the storm draws the primary
\* bolt (from 180,160) exactly when c < 150 or 2000 < c < 2100, the second
\* bolt (from 280,150) exactly when 500 < c < 600, and no other bolt.
C15_LightningByCycle ==
    fn_in.fn = "draw_storm_system" =>
        LET c == fn_in.time % 4000
            drawn == {fn_out.bolts[k] : k \in 1..Len(fn_out.bolts)} IN
        /\ <<180, 160>> \in drawn <=> (c < 150 \/ (2000 < c /\ c < 2100))
        /\ <<280, 150>> \in drawn <=> (500 < c /\ c < 600)
        /\ drawn \subseteq {<<180, 160>>, <<280, 150>>}
        /\ Len(fn_out.bolts) = Cardinality(drawn)
        /\ c = 50 => fn_out.bolts = << <<180, 160>> >>
        /\ c = 1000 => fn_out.bolts = << >>

\* C15's case: in the second cycle of the clock, c = 550, the second bolt
\* alone is drawn.
C15_Witness ==
    /\ fn_in.fn = "draw_storm_system"
    /\ fn_in.time = 4550
    /\ fn_out.bolts = << <<280, 150>> >>

----------------------------------------------------------------------------
(* Clouds.                                                                 *)

\* C16: for every humidity of the u8 field the clouds drawn number
\* humidity / 15 (rounded down) clamped to 2..8; humidities 0, 15, 120 and
\* 150 give 2, 2, 8 and 8.
C16_CloudCountClamped ==
    fn_in.fn = "draw_cloud_formations" =>
        LET h == fn_in.humidity
            q == h \div 15
            n == Len(fn_out) IN
        /\ n = (IF q < 2 THEN 2 ELSE IF q > 8 THEN 8 ELSE q)
        /\ n >= 2
        /\ n <= 8
        /\ h \in {0, 15} => n = 2
        /\ h \in {120, 150} => n = 8

\* C16's case: humidity 255, the largest a u8 holds, drew 8 clouds.
C16_Witness ==
    /\ fn_in.fn = "draw_cloud_formations"
    /\ fn_in.humidity = U8Max
    /\ Len(fn_out) = 8

----------------------------------------------------------------------------
(* The thermometer.                                                        *)

\* C17: the tube height is min(|temperature| * 1.5, 35): between 0 and 35,
\* not smaller than the height of any temperature of smaller magnitude;
\* the tube points drawn are its integer part, at most 35.
C17_TubeHeight ==
    fn_in.fn = "draw_weather_indicators" =>
        LET t == fn_in.temperature
            a == IF t < 0 THEN -t ELSE t
            unit == 2 * Tenths
            h == fn_out.temp_height IN
        /\ h = (IF a * 3 < 35 * unit THEN a * 3 ELSE 35 * unit)
        /\ h >= 0
        /\ h <= 35 * unit
        /\ \A t2 \in Temperatures :
              (IF t2 < 0 THEN -t2 ELSE t2) <= a => temp_height(t2) <= h
        /\ fn_out.tube_points = h \div unit
        /\ fn_out.tube_points <= 35

\* C17's case: -12.5 degrees gives a height of 18.75 and 18 tube points.
C17_Witness ==
    /\ fn_in.fn = "draw_weather_indicators"
    /\ fn_in.temperature = -(12 * Tenths + 5)
    /\ fn_out.temp_height * 100 = 1875 * 2 * Tenths
    /\ fn_out.tube_points = 18

----------------------------------------------------------------------------
(* The scene at two clock readings.                                        *)

\* The centre and the size of each cloud of a cluster.
CloudPlaces(clouds) ==
    [k \in 1..Len(clouds) |-> <<clouds[k].x, clouds[k].y, clouds[k].size>>]

\* C18: two renders of one (condition, temperature, humidity, wind, isDay)
\* tuple at two clock readings have the same horizon line, at y = 50, the
\* same cloud centres and sizes and the same indicator panel frame.
C18_StaticElementsIgnoreClock ==
    fn_in.fn = "render_weather_canvas" =>
        LET a == fn_out[1]
            b == fn_out[2] IN
        /\ a.ground.horizon = b.ground.horizon
        /\ a.ground.horizon.y1 = 50
        /\ a.ground.horizon.y2 = 50
        /\ CloudPlaces(a.centerpiece.clouds) = CloudPlaces(b.centerpiece.clouds)
        /\ a.indicators.frame = b.indicators.frame
        /\ a.indicators.frame =
              [shape |-> "Rectangle", x |-> 10, y |-> 140, width |-> 45,
               height |-> 50, color |-> "White"]

\* C18's case: a thunderstorm rendered at readings 50 and 1000: the bolt
\* is in the first render only, the storm clouds are in both.
C18_Witness ==
    /\ fn_in.fn = "render_weather_canvas"
    /\ fn_in.condition = "Thunderstorm"
    /\ fn_in.clocks = <<50, 1000>>
    /\ fn_out[1].centerpiece.bolts # fn_out[2].centerpiece.bolts
    /\ fn_out[1].centerpiece.anim # fn_out[2].centerpiece.anim
    /\ Len(fn_out[1].centerpiece.clouds) = 6
    /\ fn_out[1].centerpiece.clouds = fn_out[2].centerpiece.clouds

----------------------------------------------------------------------------
(* Scene selection.                                                        *)

\* C19: every condition, by day and by night, draws a centerpiece; Smoke,
\* Haze, Dust, Sand, Ash, Squall, Tornado and Unknown draw the cloud
\* formation of humidity 50, three clouds, whatever the humidity is.
C19_SceneSelectionTotal ==
    fn_in.fn = "render_weather_canvas" =>
        \A k \in 1..2 :
            LET drawn == fn_out[k].centerpiece IN
            /\ Len(drawn.calls) >= 1
            /\ fn_in.condition \in {"Smoke", "Haze", "Dust", "Sand", "Ash",
                                    "Squall", "Tornado", "Unknown"} =>
                  /\ drawn.calls = <<"draw_cloud_formations">>
                  /\ Len(drawn.clouds) = 3
                  /\ drawn.bolts = << >>

\* C19's case: a tornado at humidity 95, by night, drew three clouds.
C19_Witness ==
    /\ fn_in.fn = "render_weather_canvas"
    /\ fn_in.condition = "Tornado"
    /\ fn_in.humidity = 95
    /\ ~fn_in.is_day
    /\ Len(fn_out[1].centerpiece.clouds) = 3

----------------------------------------------------------------------------
(* The emoji and the display string of a condition.                        *)

\* The values test_weather_condition_get_emoji and
\* test_weather_condition_display expect, in the order of ConditionOrder.
TestedEmoji ==
    << "U+2600 U+FE0F", "U+2601 U+FE0F", "U+1F327 U+FE0F", "U+1F326 U+FE0F",
       "U+26C8 U+FE0F", "U+2744 U+FE0F", "U+1F32B U+FE0F", "U+1F32B U+FE0F",
       "U+1F32B U+FE0F", "U+1F32B U+FE0F", "U+1F32B U+FE0F", "U+1F32B U+FE0F",
       "U+1F32B U+FE0F", "U+1F4A8", "U+1F32A U+FE0F", "U+2753" >>

TestedDisplay ==
    << "Clear", "Cloudy", "Rainy", "Drizzle", "Thunderstorm", "Snowy",
       "Misty", "Foggy", "Smoky", "Hazy", "Dusty", "Sandy", "Ashy", "Squall",
       "Tornado", "Unknown" >>

----------------------------------------------------------------------------
(* The calendar view.                                                      *)

----------------------------------------------------------------------------
(* truncate_string.                                                        *)

\* C22: truncate_string(s, max_len) returns, without failing, s itself when
\* s is at most max_len long and otherwise the first max_len - 3 characters
\* of s followed by "..."; what it returns is never longer than max_len.
C22_TruncateString ==
    fn_in.fn = "truncate_string" =>
        /\ fn_out.result = "ok"
        /\ Len(fn_in.s) <= fn_in.max_len => fn_out.value = fn_in.s
        /\ Len(fn_in.s) > fn_in.max_len =>
              fn_out.value = SubSeq(fn_in.s, 1, fn_in.max_len - 3)
                             \o <<".", ".", ".">>
        /\ Len(fn_out.value) <= fn_in.max_len

----------------------------------------------------------------------------
(* Colour and size of the wind overlay, colour of the sun.                 *)

\* C23: the wind overlay is red when the wind speed is above 20, yellow
\* when above 15, white when above 10 and gray otherwise, fractional wind
\* speeds included.
C23_WindColour ==
    (fn_in.fn = "wind_overlay" /\ fn_out.drawn) =>
        LET w == fn_in.wind_speed IN
        fn_out.wind_color = (IF w > 20 * Tenths THEN "Red"
                             ELSE IF w > 15 * Tenths THEN "Yellow"
                             ELSE IF w > 10 * Tenths THEN "White"
                             ELSE "Gray")

\* C24: the sun is red when the temperature is above 40, light red when
\* above 30, yellow when above 20, light yellow when above 10 and white
\* otherwise, fractional temperatures included.
C24_SunColour ==
    fn_in.fn = "draw_magnificent_sun" =>
        LET t == fn_in.temperature IN
        fn_out.sun_color = (IF t > 40 * Tenths THEN "Red"
                            ELSE IF t > 30 * Tenths THEN "LightRed"
                            ELSE IF t > 20 * Tenths THEN "Yellow"
                            ELSE IF t > 10 * Tenths THEN "LightYellow"
                            ELSE "White")

\* C25: the wind overlay is drawn exactly when the wind speed is above 8;
\* its stream lines number wind speed / 6 clamped to 3..10 and truncated,
\* and no overlay of a smaller wind speed has more of them.
C25_WindOverlay ==
    fn_in.fn = "wind_overlay" =>
        LET w == fn_in.wind_speed
            unit == 6 * Tenths
            clamped == IF w < 3 * unit THEN 3 * unit
                       ELSE IF w > 10 * unit THEN 10 * unit ELSE w IN
        /\ fn_out.drawn <=> w > 8 * Tenths
        /\ fn_out.drawn =>
              /\ fn_out.num_streams = clamped \div unit
              /\ fn_out.num_streams >= 3
              /\ fn_out.num_streams <= 10
              /\ \A w2 \in WindSpeeds :
                    w2 <= w => num_streams(w2) <= fn_out.num_streams

\* C25's case: a wind of 29.9 draws an overlay of four stream lines.
C25_Witness ==
    /\ fn_in.fn = "wind_overlay"
    /\ fn_in.wind_speed = 29 * Tenths + 9
    /\ fn_out.drawn
    /\ fn_out.num_streams = 4

----------------------------------------------------------------------------
(* The animation clock.                                                    *)

\* C26: every clock-driven element of one frame is computed from one
\* clock reading: the sites that read the clock for the frame all get the
\* same value, so the first and the last star have one twinkle time, and
\* the lightning, the torrential rain offset and the ripple phase of a
\* thunderstorm come from one millisecond value.
C26_OneClockPerFrame ==
    fn_in.fn = "paint_frame" =>
        /\ \A s1, s2 \in fn_out.reads : fn_in.now[s1] = fn_in.now[s2]
        /\ (fn_in.condition = "Clear" /\ ~fn_in.is_day) =>
              fn_out.scene.centerpiece.anim.twinkle_time =
                 fn_out.scene.centerpiece.anim.twinkle_time_last
        /\ fn_in.condition = "Thunderstorm" =>
              LET t == fn_in.now["storm"] IN
              /\ fn_out.scene.centerpiece.anim.rain_offset = (t \div 80) % 60
              /\ fn_out.scene.centerpiece.anim.ripple_phase = (t \div 200) % 20

\* C27: one animation tick (120 ms) later a drop of the rain (fixed index
\* and layer) is one unit lower, nearer the ground at y = 50, or it has
\* gone from the bottom of its range, y = 60, back to the top, y = 199.
C27_RainFalls ==
    fn_in.fn = "draw_rain_system" =>
        /\ \A k \in 1..2 : fn_out[k].y_pos >= 60 /\ fn_out[k].y_pos <= 199
        /\ \/ fn_out[2].y_pos = fn_out[1].y_pos - 1
           \/ fn_out[1].y_pos = 60 /\ fn_out[2].y_pos = 199

----------------------------------------------------------------------------
(* The frame and the active tab.                                           *)

\* The function that renders the content region of a tab.
ViewOf(t) ==
    CASE t = "CurrentWeather" -> "render_current_weather_canvas"
      [] t = "WeatherForecast" -> "render_forecast_canvas"
      [] t = "Calendar" -> "render_weather_calendar"

\* C28: a frame highlights in the tab bar and renders in the content
\* region one tab, the active tab of its loop iteration; the frame drawn
\* after a key press shows the tab the press selected.
C28_FrameShowsActiveTab ==
    /\ shown # "NoFrame" =>
          /\ content.selected = TabIndex(shown) - 1
          /\ content.view = ViewOf(shown)
    /\ pc = "read" =>
          /\ shown = active_tab
          /\ content.selected = TabIndex(active_tab) - 1
          /\ content.view = ViewOf(active_tab)
          /\ active_tab = tabLog[Len(tabLog)]

\* C28's case: the key 3 was pressed on CurrentWeather and the next frame
\* highlights the third tab and shows the calendar of the two days.
C28_Witness ==
    /\ pc = "read"
    /\ reads = 1
    /\ hist = <<"3">>
    /\ tabLog = <<"CurrentWeather", "Calendar">>
    /\ frames = 2
    /\ content.selected = 2
    /\ content.view = "render_weather_calendar"
    /\ Len(content.lines) = 6

----------------------------------------------------------------------------
(* Events that are no key press.                                           *)

\* C29: an event that is no key event of kind Press (a Release or a Repeat
\* of any key, q and Esc included, or a mouse, resize, focus or paste
\* event) leaves the active tab as it is and the loop running.
C29_OnlyPressActs ==
    [][ (reads' = reads + 1 /\ Pressed(lastEvent') = "NoPress") =>
            /\ active_tab' = active_tab
            /\ pc' = "draw"
            /\ outcome' = "running" ]_vars

\* C29's case: Right pressed and released on CurrentWeather: the press
\* moved to WeatherForecast, the release changed nothing.
C29_Witness ==
    /\ reads = 2
    /\ hist = <<"Right", "NoPress">>
    /\ lastEvent = KeyEvent("Right", "Release")
    /\ tabLog = <<"CurrentWeather", "WeatherForecast", "WeatherForecast">>
    /\ active_tab = "WeatherForecast"
    /\ pc = "draw"

----------------------------------------------------------------------------
(* Drawing and reading with the terminal acquired.                         *)

\* C30: a frame is drawn and an event is read only while the terminal is
\* in raw mode with the alternate screen entered, also when run() is
\* called again on a controller whose run() has returned.
C30_DrawOnlyWhileAcquired ==
    [][ (frames' = frames + 1 \/ reads' = reads + 1) =>
            (raw_mode /\ alt_screen) ]_vars

====
